---- MODULE Spec2Model ----
(***************************************************************************)
(* Model of mkdocs_fastsearch/__init__.py: the language option validator   *)
(* (LangOption) and the build callbacks of SearchPlugin.  The option       *)
(* schema _PluginConfig (lines 48-53) is declared but attached to nothing: *)
(* SearchPlugin derives from the plain BasePlugin, so no option of the     *)
(* plugin is validated against it and none of its defaults is applied.     *)
(*                                                                         *)
(* Python strings are TLA+ strings; Python lists are sequences.  A value   *)
(* whose Python type matters (an option read from the configuration file)  *)
(* is a record [type, s, l, n] built by PyStr, PyList, PyInt, PyNone.      *)
(***************************************************************************)
EXTENDS Integers, Sequences, FiniteSets, TLC

VARIABLES
    pc,             \* position of the modelled run
    lang,           \* argument of get_lunr_supported_lang
    lang_detected,  \* its return value
    value,          \* argument of run_validation
    result,         \* outcome of run_validation(value)
    second,         \* outcome of run_validation applied to result's list
    options,        \* the plugin options as written in the configuration file
    theme,          \* 'search_index_only' in config['theme'] and its value is true
    config,         \* self.config
    search_index,   \* self.search_index
    added,          \* pages handed to on_page_context since the last on_pre_build
    builds,         \* number of builds started on this plugin instance
    site_search     \* <site_dir>/search: the written index and the copied files

vars == <<pc, lang, lang_detected, value, result, second, options, theme,
          config, search_index, added, builds, site_search>>

(***************************************************************************)
(* Bounds of the model.                                                    *)
(***************************************************************************)
\* longest list of language codes handed to run_validation
MaxLangs == 3
\* most '_'-separated portions in a code handed to get_lunr_supported_lang
MaxParts == 3
\* most pages added to the index in one build
MaxPages == 2
\* most builds run on one plugin instance
MaxBuilds == 2

(***************************************************************************)
(* Python values.                                                          *)
(***************************************************************************)
\* Python's None where a str is expected.  Every str returned by
\* get_lunr_supported_lang has been through str.lower(), so it never equals
\* this capitalised marker.
None == "None"

PyStr(s) == [type |-> "str", s |-> s, l |-> << >>, n |-> 0]
PyList(l) == [type |-> "list", s |-> "", l |-> l, n |-> 0]
PyInt(n) == [type |-> "int", s |-> "", l |-> << >>, n |-> n]
PyNone == [type |-> "NoneType", s |-> "", l |-> << >>, n |-> 0]

Range(seq) == {seq[i] : i \in 1..Len(seq)}

\* s[i] of a str
CharAt(s, i) == SubSeq(s, i, i)

\* list(s) of a str: its characters
RECURSIVE Chars(_)
Chars(s) == IF Len(s) = 0 THEN << >>
            ELSE <<CharAt(s, 1)>> \o Chars(SubSeq(s, 2, Len(s)))

UpperCase == "ABCDEFGHIJKLMNOPQRSTUVWXYZ"
LowerCase == "abcdefghijklmnopqrstuvwxyz"

LowerChar(c) ==
    IF \E i \in 1..Len(UpperCase) : CharAt(UpperCase, i) = c
    THEN CharAt(LowerCase, CHOOSE i \in 1..Len(UpperCase) : CharAt(UpperCase, i) = c)
    ELSE c

\* str.lower()
RECURSIVE Lower(_)
Lower(s) == IF Len(s) = 0 THEN ""
            ELSE LowerChar(CharAt(s, 1)) \o Lower(SubSeq(s, 2, Len(s)))

\* str.split("_"): the portions between separators, empty ones included
RECURSIVE Split(_)
Split(s) ==
    IF \A i \in 1..Len(s) : CharAt(s, i) # "_"
    THEN <<s>>
    ELSE LET i == CHOOSE k \in 1..Len(s) :
                      /\ CharAt(s, k) = "_"
                      /\ \A j \in 1..(k - 1) : CharAt(s, j) # "_"
         IN  <<SubSeq(s, 1, i - 1)>> \o Split(SubSeq(s, i + 1, Len(s)))

\* x in s for two str: s has x as a substring
IsSubstring(x, s) ==
    \E i \in 1..(Len(s) - Len(x) + 1) : SubSeq(s, i, i + Len(x) - 1) = x

\* list.remove(x): drops the first occurrence of x (the caller checks that
\* there is one; Python raises ValueError otherwise)
\* (variant: drops every occurrence)
ListRemoveAll(l, x) == SelectSeq(l, LAMBDA e : e # x)
ListRemove(l, x) ==
    LET i == CHOOSE k \in 1..Len(l) : l[k] = x /\ \A j \in 1..(k - 1) : l[j] # x
    IN  SubSeq(l, 1, i - 1) \o SubSeq(l, i + 1, Len(l))

(***************************************************************************)
(* LangOption.get_lunr_supported_lang                                      *)
(***************************************************************************)
\* The files of <base_path>/lunr-language.  on_post_build copies the three
\* helper files from there; the language files are those of the codes the
\* source names ('ru', 'ja', 'jp') and of 'de'.  There is no lunr.en.js.
LunrLanguageFiles ==
    {"lunr.stemmer.support.js", "lunr.multi.js", "tinyseg.js",
     "lunr.de.js", "lunr.ja.js", "lunr.jp.js", "lunr.ru.js"}

\* os.path.isfile(os.path.join(base_path, 'lunr-language', filename))
IsFile(filename) == filename \in LunrLanguageFiles

\* fallback = {'uk': 'ru'}; fallback.get(lang_part, lang_part)
fallback(lang_part) == IF lang_part = "uk" THEN "ru" ELSE lang_part

\* one turn of the for loop: the portion as the loop tests and returns it
LangPart(part) == fallback(Lower(part))

RECURSIVE LunrLoop(_, _)
LunrLoop(parts, i) ==
    IF i > Len(parts) THEN None
    ELSE LET lang_part == LangPart(parts[i])
         IN  IF IsFile("lunr." \o lang_part \o ".js")
             THEN lang_part
             ELSE LunrLoop(parts, i + 1)

\* (variant: looks at the first portion only)
get_lunr_supported_lang_first(code) ==
    LET lang_part == LangPart(Split(code)[1])
    IN  IF IsFile("lunr." \o lang_part \o ".js") THEN lang_part ELSE None
get_lunr_supported_lang(code) == LunrLoop(Split(code), 1)

(***************************************************************************)
(* LangOption.run_validation                                               *)
(***************************************************************************)
\* an outcome: raised = "" and the returned list, or the exception raised
Returned(l) == [raised |-> "", value |-> l]
Raised(e) == [raised |-> e, value |-> << >>]

\* not lang_detected
Falsy(s) == s = None \/ s = ""

\* lines 38-40: drop the code and make sure 'en' is in the list
\* (variant: the code is left in the list)
FallBackKeep(l, code) ==
    IF "en" \in Range(l) THEN l ELSE Append(l, "en")
FallBackToEn(l, code) ==
    LET removed == ListRemove(l, code)
    IN  IF "en" \in Range(removed) THEN removed ELSE Append(removed, "en")

\* lines 42-43: drop the code and append what it resolved to
\* (variants: the resolved code takes the place of the code; the code is
\* left in the list)
SwitchInPlace(l, code, detected) ==
    [i \in 1..Len(l) |->
        IF i = (CHOOSE k \in 1..Len(l) : l[k] = code /\ \A j \in 1..(k - 1) : l[j] # code)
        THEN detected ELSE l[i]]
SwitchKeep(l, code, detected) == Append(l, detected)
SwitchTo(l, code, detected) == Append(ListRemove(l, code), detected)

\* the for loop over list(value): copy is the snapshot iterated, l the list
\* being changed
RECURSIVE ValidationLoop(_, _, _)
ValidationLoop(copy, i, l) ==
    IF i > Len(copy) THEN Returned(l)
    ELSE LET code == copy[i]
         IN  IF code = "en" THEN ValidationLoop(copy, i + 1, l)
             ELSE LET detected == get_lunr_supported_lang(code)
                  IN  IF Falsy(detected)
                      THEN IF code \notin Range(l) THEN Raised("ValueError")
                           ELSE ValidationLoop(copy, i + 1, FallBackToEn(l, code))
                      ELSE IF detected # code
                      THEN IF code \notin Range(l) THEN Raised("ValueError")
                           ELSE ValidationLoop(copy, i + 1, SwitchTo(l, code, detected))
                      ELSE ValidationLoop(copy, i + 1, l)

run_validation(v) ==
    LET l == IF v.type = "str" THEN <<v.s>> ELSE v.l
    IN  IF v.type \notin {"str", "list"} THEN Raised("ValidationError")
        ELSE ValidationLoop(l, 1, l)

(***************************************************************************)
(* Values the variables of a specification hold while it does not use them *)
(***************************************************************************)
NoOutcome == [raised |-> "pending", value |-> << >>]
NoOptions == << >>
NoIndex == [built |-> FALSE, config |-> NoOptions, entries |-> << >>]
NoSite == [index |-> [config |-> NoOptions, docs |-> << >>], written |-> FALSE,
           files |-> {}, raised |-> ""]

IdleResolve == lang = "" /\ lang_detected = None
IdleLang == value = PyNone /\ result = NoOutcome /\ second = NoOutcome
IdleBuild == /\ options = NoOptions /\ theme = FALSE /\ config = NoOptions
             /\ search_index = NoIndex /\ added = << >> /\ builds = 0
             /\ site_search = NoSite

(***************************************************************************)
(* SpecResolve: get_lunr_supported_lang on one code.                       *)
(***************************************************************************)
\* the portions codes are built from
Portions == {"de", "DE", "uk", "Uk", "zz", "en", "jp", "ru"}

RECURSIVE Join(_)
Join(parts) == IF Len(parts) = 1 THEN parts[1]
               ELSE parts[1] \o "_" \o Join(Tail(parts))

\* run_validation calls get_lunr_supported_lang on codes other than 'en'
ResolveCodes ==
    {Join(parts) : parts \in UNION {[1..k -> Portions] : k \in 1..MaxParts}} \ {"en"}

InitResolve ==
    /\ pc = "start"
    /\ lang \in ResolveCodes
    /\ lang_detected = None
    /\ IdleLang /\ IdleBuild

GetLunrSupportedLang ==
    /\ pc = "start"
    /\ lang_detected' = get_lunr_supported_lang(lang)
    /\ pc' = "resolved"
    /\ UNCHANGED <<lang, value, result, second, options, theme, config,
                   search_index, added, builds, site_search>>

NextResolve == GetLunrSupportedLang

SpecResolve == InitResolve /\ [][NextResolve]_vars

(***************************************************************************)
(* SpecLang: run_validation on one lang value, and again on what it        *)
(* returned.                                                               *)
(***************************************************************************)
LangCodes == {"en", "de", "jp", "ru", "uk", "zzz", "DE", "de_DE", "zz_de", "uk_UA", "EN"}

LangLists == UNION {[1..k -> LangCodes] : k \in 0..MaxLangs}

LangValues ==
    {PyList(l) : l \in LangLists} \cup {PyStr(c) : c \in LangCodes}
        \cup {PyInt(5), PyNone}

InitLang ==
    /\ pc = "start"
    /\ value \in LangValues
    /\ result = NoOutcome
    /\ second = NoOutcome
    /\ IdleResolve /\ IdleBuild

RunValidation ==
    /\ pc = "start"
    /\ result' = run_validation(value)
    /\ pc' = IF result'.raised = "" THEN "validated" ELSE "raised"
    /\ UNCHANGED <<lang, lang_detected, value, second, options, theme, config,
                   search_index, added, builds, site_search>>

RunValidationAgain ==
    /\ pc = "validated"
    /\ second' = run_validation(PyList(result.value))
    /\ pc' = "revalidated"
    /\ UNCHANGED <<lang, lang_detected, value, result, options, theme, config,
                   search_index, added, builds, site_search>>

NextLang == RunValidation \/ RunValidationAgain

SpecLang == InitLang /\ [][NextLang]_vars

(***************************************************************************)
(* SearchIndex: the index under construction (search_index.py).            *)
(***************************************************************************)
JoinText(a, b) == IF a = "" THEN b ELSE IF b = "" THEN a ELSE a \o " " \o b

Record(location, title, text) == [location |-> location, title |-> title, text |-> text]

\* all the text of the headings from the i-th on: heading text, then body
RECURSIVE HeadingsText(_, _)
HeadingsText(headings, i) ==
    IF i > Len(headings) THEN ""
    ELSE JoinText(JoinText(headings[i].text, headings[i].body),
                  HeadingsText(headings, i + 1))

\* the text of the headings without an anchor, which have no record of
\* their own
RECURSIVE UnaddressedText(_, _)
UnaddressedText(headings, i) ==
    IF i > Len(headings) THEN ""
    ELSE IF headings[i].anchor = ""
         THEN JoinText(JoinText(headings[i].text, headings[i].body),
                       UnaddressedText(headings, i + 1))
         ELSE UnaddressedText(headings, i + 1)

\* one record for each heading that has an anchor
RECURSIVE SectionRecords(_, _, _, _)
SectionRecords(path, headings, i, withText) ==
    IF i > Len(headings) THEN << >>
    ELSE IF headings[i].anchor = ""
         THEN SectionRecords(path, headings, i + 1, withText)
         ELSE <<Record(path \o "#" \o headings[i].anchor, headings[i].text,
                       IF withText THEN headings[i].body ELSE "")>>
                  \o SectionRecords(path, headings, i + 1, withText)

\* the records of one page at the configured granularity
Normalize(page, indexing) ==
    IF indexing = "full"
    THEN <<Record(page.path, page.title,
                  JoinText(page.body, HeadingsText(page.headings, 1)))>>
    ELSE IF indexing = "sections"
    THEN <<Record(page.path, page.title,
                  JoinText(page.body, UnaddressedText(page.headings, 1)))>>
             \o SectionRecords(page.path, page.headings, 1, TRUE)
    ELSE <<Record(page.path, page.title, "")>>
             \o SectionRecords(page.path, page.headings, 1, FALSE)

\* insert a record, or overwrite the one at its location where that one is
\* (variant: always append)
InsertAlways(entries, rec) == Append(entries, rec)
Insert(entries, rec) ==
    IF \E i \in 1..Len(entries) : entries[i].location = rec.location
    THEN [i \in 1..Len(entries) |->
             IF entries[i].location = rec.location THEN rec ELSE entries[i]]
    ELSE Append(entries, rec)

RECURSIVE InsertAll(_, _, _)
InsertAll(entries, recs, i) ==
    IF i > Len(recs) THEN entries
    ELSE InsertAll(Insert(entries, recs[i]), recs, i + 1)

\* the granularity the index works at: the configured one, 'full' when the
\* option is not one of the three
Granularity(cfg) ==
    IF cfg.indexing \in {PyStr("full"), PyStr("sections"), PyStr("titles")}
    THEN cfg.indexing.s ELSE "full"

\* SearchIndex(**config)
SearchIndex(cfg) == [built |-> TRUE, config |-> cfg, entries |-> << >>]

\* SearchIndex.add_entry_from_context(page)
add_entry_from_context(index, page) ==
    [index EXCEPT !.entries = InsertAll(@, Normalize(page, Granularity(index.config)), 1)]

\* SearchIndex.generate_search_index()
generate_search_index(index) ==
    [config |-> [lang |-> index.config.lang,
                 separator |-> index.config.separator,
                 min_search_length |-> index.config.min_search_length,
                 prebuild_index |-> index.config.prebuild_index],
     docs |-> index.entries]

(***************************************************************************)
(* SearchPlugin.on_post_build: the language support files.                 *)
(***************************************************************************)
\* len(x), x in y and iteration, for the str and list a lang option can be
PyLen(v) == IF v.type = "str" THEN Len(v.s) ELSE Len(v.l)
PyIn(x, v) == IF v.type = "str" THEN IsSubstring(x, v.s) ELSE x \in Range(v.l)
PyIter(v) == IF v.type = "str" THEN Chars(v.s) ELSE v.l

RECURSIVE LanguageFiles(_, _)
LanguageFiles(codes, i) ==
    IF i > Len(codes) THEN << >>
    ELSE (IF codes[i] # "en" THEN <<"lunr." \o codes[i] \o ".js">> ELSE << >>)
             \o LanguageFiles(codes, i + 1)

\* lines 90-99: the list of files to copy
\* (variant: without line 95-96, the segmenter)
SupportFilesNoSegmenter(v) ==
    (IF PyLen(v) > 1 \/ ~PyIn("en", v) THEN <<"lunr.stemmer.support.js">> ELSE << >>)
        \o (IF PyLen(v) > 1 THEN <<"lunr.multi.js">> ELSE << >>)
        \o LanguageFiles(PyIter(v), 1)
SupportFiles(v) ==
    (IF PyLen(v) > 1 \/ ~PyIn("en", v) THEN <<"lunr.stemmer.support.js">> ELSE << >>)
        \o (IF PyLen(v) > 1 THEN <<"lunr.multi.js">> ELSE << >>)
        \o (IF PyIn("ja", v) \/ PyIn("jp", v) THEN <<"tinyseg.js">> ELSE << >>)
        \o LanguageFiles(PyIter(v), 1)

\* lines 101-104: copy the files in turn; utils.copy_file raises on the
\* first one that lunr-language does not hold, the earlier ones stay copied
RECURSIVE CopyFiles(_, _, _)
CopyFiles(files, i, copied) ==
    IF i > Len(files) THEN [raised |-> "", files |-> copied]
    ELSE IF ~IsFile(files[i]) THEN [raised |-> "FileNotFoundError", files |-> copied]
    ELSE CopyFiles(files, i + 1, copied \cup {files[i]})

\* lines 86-104; an option that was not given is no key of self.config
CopySupportFiles(cfg, search_index_only) ==
    IF cfg.lang = PyNone THEN [raised |-> "KeyError", files |-> {}]
    ELSE IF search_index_only THEN [raised |-> "", files |-> {}]
    ELSE IF cfg.lang.type \notin {"str", "list"} THEN [raised |-> "TypeError", files |-> {}]
    ELSE CopyFiles(SupportFiles(cfg.lang), 1, {})

(***************************************************************************)
(* Spec: one plugin instance, from its configuration through its builds.   *)
(***************************************************************************)
LangOptions ==
    {PyNone, PyInt(5), PyStr("de"),
     PyList(<< >>), PyList(<<"en">>), PyList(<<"de">>), PyList(<<"multi">>),
     PyList(<<"zzz">>), PyList(<<"de", "jp">>), PyList(<<"en", "ja">>),
     PyList(<<"ru", "en", "de">>)}
MinSearchLengthOptions == {PyNone, PyInt(0), PyInt(-1), PyStr("3")}
IndexingOptions == {PyNone, PyStr("sections"), PyStr("titles"), PyStr("chapters")}

Heading(text, anchor, body) == [text |-> text, anchor |-> anchor, body |-> body]
Pages ==
    {[path |-> "/intro/", title |-> "Intro", body |-> "Welcome.",
      headings |-> <<Heading("Setup", "setup", "Install steps.")>>],
     [path |-> "/x", title |-> "First", body |-> "one",
      headings |-> <<Heading("Y", "y", "why"), Heading("Note", "", "aside")>>],
     [path |-> "/x", title |-> "Second", body |-> "",
      headings |-> <<Heading("Z", "z", "zed"), Heading("Y again", "y", "")>>]}

Init ==
    /\ pc = "start"
    /\ options \in [lang : LangOptions, separator : {PyNone},
                    min_search_length : MinSearchLengthOptions,
                    prebuild_index : {PyNone}, indexing : IndexingOptions]
    /\ theme \in BOOLEAN
    /\ config = NoOptions
    /\ search_index = NoIndex
    /\ added = << >>
    /\ builds = 0
    /\ site_search = NoSite
    /\ IdleResolve /\ IdleLang

\* line 56: SearchPlugin names no option schema, so mkdocs loads the
\* options into self.config as they are written; none is rejected and none
\* gets a default
LoadConfig ==
    /\ pc = "start"
    /\ config' = options
    /\ pc' = "configured"
    /\ UNCHANGED <<lang, lang_detected, value, result, second, options, theme,
                   search_index, added, builds, site_search>>

\* line 73: every build starts from a new SearchIndex
\* (variant: the index of the previous build is kept)
KeepSearchIndex == IF search_index.built THEN search_index ELSE SearchIndex(config)
CreateSearchIndex == SearchIndex(config)

on_pre_build ==
    /\ pc \in {"configured", "built"}
    /\ builds < MaxBuilds
    /\ search_index' = CreateSearchIndex
    /\ added' = << >>
    /\ builds' = builds + 1
    /\ pc' = "building"
    /\ UNCHANGED <<lang, lang_detected, value, result, second, options, theme,
                   config, site_search>>

on_page_context ==
    /\ pc = "building"
    /\ Len(added) < MaxPages
    /\ \E page \in Pages :
           /\ search_index' = add_entry_from_context(search_index, page)
           /\ added' = Append(added, page)
    /\ UNCHANGED <<pc, lang, lang_detected, value, result, second, options, theme,
                   config, builds, site_search>>

on_post_build ==
    /\ pc = "building"
    /\ LET copy == CopySupportFiles(config, theme)
       IN  /\ site_search' = [index |-> generate_search_index(search_index),
                              written |-> TRUE,
                              files |-> site_search.files \cup copy.files,
                              raised |-> copy.raised]
           /\ pc' = IF copy.raised = "" THEN "built" ELSE "aborted"
    /\ UNCHANGED <<lang, lang_detected, value, result, second, options, theme,
                   config, search_index, added, builds>>

Next == LoadConfig \/ on_pre_build \/ on_page_context \/ on_post_build

Spec == Init /\ [][Next]_vars

(***************************************************************************)
(* Properties of the language option.                                      *)
(***************************************************************************)
\* the list run_validation iterates: the argument, a lone str wrapped
InputList == IF value.type = "str" THEN <<value.s>> ELSE value.l

Validated == pc \in {"validated", "revalidated"}

\* the code is looked up and no portion of it is supported
FailsResolution(code) == code # "en" /\ Falsy(get_lunr_supported_lang(code))
\* the code is looked up and comes back as another code
IsSwitched(code) ==
    /\ code # "en"
    /\ ~Falsy(get_lunr_supported_lang(code))
    /\ get_lunr_supported_lang(code) # code
\* the code stays in the list as it is
IsKept(code) == code = "en" \/ get_lunr_supported_lang(code) = code

\* C1: the list run_validation returns holds only 'en' and codes that
\* resolve to themselves, and holds 'en' whenever some input code failed
\* resolution.
C1_NoFailedCodeAndEnAdded ==
    Validated =>
        /\ \A i \in 1..Len(result.value) : IsKept(result.value[i])
        /\ (\E i \in 1..Len(InputList) : FailsResolution(InputList[i]))
               => "en" \in Range(result.value)

C1_Witness ==
    /\ pc = "validated"
    /\ value = PyList(<<"de", "zzz", "jp">>)
    /\ Range(result.value) = {"de", "jp", "en"}

\* C2: whatever lang value run_validation accepts, the list it returns has
\* at least one element, one of them a supported code.
C2_NeverEmpty ==
    Validated =>
        /\ Len(result.value) >= 1
        /\ \E i \in 1..Len(result.value) : IsKept(result.value[i])

\* the portions of lang, and whether the i-th one names a language file
\* once lowercased and mapped through the fallback table
LangPortions == Split(lang)
PortionSupported(i) ==
    ("lunr." \o fallback(Lower(LangPortions[i])) \o ".js") \in LunrLanguageFiles

\* C3 as stated: only the portion before the first '_' is looked at; the
\* code resolves to it (lowercased, mapped through the fallback table) when
\* it is supported and fails otherwise, whatever follows the separator.
C3_OnlyFirstPortion ==
    pc = "resolved" =>
        lang_detected = IF PortionSupported(1)
                        THEN fallback(Lower(LangPortions[1])) ELSE None

\* C3 amended: resolution ignores case and tries the '_'-separated portions
\* from left to right; it returns the first portion that, lowercased and
\* mapped through the fallback table, is supported, and fails only when no
\* portion is.
C3_FirstSupportedPortion ==
    pc = "resolved" =>
        /\ lang_detected = None <=> \A i \in 1..Len(LangPortions) : ~PortionSupported(i)
        /\ lang_detected # None =>
               \E i \in 1..Len(LangPortions) :
                   /\ PortionSupported(i)
                   /\ \A j \in 1..(i - 1) : ~PortionSupported(j)
                   /\ lang_detected = fallback(Lower(LangPortions[i]))
        /\ get_lunr_supported_lang(Lower(lang)) = lang_detected

C3_Witness ==
    /\ pc = "resolved"
    /\ lang = "zz_Uk_DE"
    /\ lang_detected = "ru"

\* what a switched code becomes
ResolvedOf(codes) == [i \in 1..Len(codes) |-> get_lunr_supported_lang(codes[i])]
NotEn(code) == code # "en"
Resolves(code) == code # "en" /\ ~Falsy(get_lunr_supported_lang(code))

\* C4 as stated: a code that resolves to another code is replaced where it
\* stands, so the codes other than 'en' come out in the order they went in,
\* each as what it resolves to.
C4_SubstitutedInPlace ==
    Validated =>
        SelectSeq(result.value, NotEn) = ResolvedOf(SelectSeq(InputList, Resolves))

\* C4 amended: a code that resolves to another code is removed and the
\* resolved code is appended at the end of the list: the returned list is
\* the unchanged codes in their input order, followed by the resolved codes
\* of the switched ones in input order (and 'en' at most once among them).
C4_RemovedAndAppended ==
    Validated =>
        LET kept == SelectSeq(InputList, IsKept)
            tail == SubSeq(result.value, Len(kept) + 1, Len(result.value))
        IN  /\ Len(result.value) >= Len(kept)
            /\ SubSeq(result.value, 1, Len(kept)) = kept
            /\ SelectSeq(tail, NotEn) = ResolvedOf(SelectSeq(InputList, IsSwitched))
            /\ Len(SelectSeq(tail, LAMBDA c : c = "en")) <= 1

C4_Witness ==
    /\ pc = "validated"
    /\ value = PyList(<<"DE", "jp", "uk_UA">>)
    /\ result.value = <<"jp", "de", "ru">>

\* C6: on a list of strings run_validation returns a list and raises
\* nothing; no list.remove it performs finds its element already gone.
C6_NeverRaises ==
    (pc # "start" /\ value.type \in {"str", "list"}) =>
        /\ pc # "raised"
        /\ result.raised = ""
        /\ pc = "revalidated" => second.raised = ""

C6_Witness ==
    /\ pc = "validated"
    /\ value = PyList(<<"zzz", "zzz", "DE">>)
    /\ result.value = <<"en", "de">>

\* C10: validating the list run_validation returned gives that list back,
\* same elements in the same order.
C10_Idempotent ==
    pc = "revalidated" =>
        /\ second.raised = ""
        /\ second.value = result.value

C10_Witness ==
    /\ pc = "revalidated"
    /\ value = PyList(<<"uk_UA", "zzz", "DE">>)
    /\ result.value = <<"ru", "en", "de">>
    /\ second.value = result.value

(***************************************************************************)
(* Properties of the configuration and of the builds.                      *)
(***************************************************************************)
\* the option sets C5 calls invalid
IndexingOutsideChoices(o) ==
    o.indexing # PyNone /\ o.indexing \notin {PyStr("full"), PyStr("sections"), PyStr("titles")}
LangNeitherStrNorList(o) == o.lang # PyNone /\ o.lang.type \notin {"str", "list"}
MinSearchLengthNotNatural(o) ==
    o.min_search_length # PyNone
        /\ ~(o.min_search_length.type = "int" /\ o.min_search_length.n >= 0)

\* C5: an option set whose indexing is outside {full, sections, titles},
\* whose lang is neither a string nor a list, or whose min_search_length is
\* not a non-negative integer is rejected with a configuration error before
\* any page is added; it never yields a usable configuration.
C5_InvalidOptionsRejected ==
    (pc # "start" /\ (\/ IndexingOutsideChoices(options)
                      \/ LangNeitherStrNorList(options)
                      \/ MinSearchLengthNotNatural(options)))
        => (pc \notin {"configured", "building", "built", "aborted"}
               /\ ~search_index.built /\ added = << >>)

\* the build has run on_post_build
PostBuilt == pc \in {"built", "aborted"}

\* the records the pages added in this build produced, in the order produced
RECURSIVE Emitted(_, _)
Emitted(pages, i) ==
    IF i > Len(pages) THEN << >>
    ELSE Normalize(pages[i], Granularity(config)) \o Emitted(pages, i + 1)

FirstAt(recs, location) ==
    CHOOSE k \in 1..Len(recs) :
        recs[k].location = location /\ \A j \in 1..(k - 1) : recs[j].location # location
LastAt(recs, location) ==
    CHOOSE k \in 1..Len(recs) :
        recs[k].location = location /\ \A j \in (k + 1)..Len(recs) : recs[j].location # location

\* C7: no two docs entries of the written artifact share a location; each
\* location the added pages produced has exactly one record, which carries
\* the fields of the last record produced there, and the records stand in
\* the order in which their locations first appeared.
C7_UniqueLastWriteWins ==
    PostBuilt =>
        LET docs == site_search.index.docs
            emitted == Emitted(added, 1)
        IN  /\ \A i, j \in 1..Len(docs) : docs[i].location = docs[j].location => i = j
            /\ \A k \in 1..Len(emitted) :
                   \E i \in 1..Len(docs) :
                       /\ docs[i].location = emitted[k].location
                       /\ docs[i] = emitted[LastAt(emitted, emitted[k].location)]
            /\ \A i, j \in 1..Len(docs) :
                   (i < j /\ (\E k \in 1..Len(emitted) : emitted[k].location = docs[i].location)
                          /\ (\E k \in 1..Len(emitted) : emitted[k].location = docs[j].location))
                       => FirstAt(emitted, docs[i].location) < FirstAt(emitted, docs[j].location)

C7_Witness ==
    /\ pc = "built"
    /\ config.indexing = PyStr("sections")
    /\ Len(added) = 2
    /\ added[1].title = "First" /\ added[2].title = "Second"
    /\ site_search.index.docs =
           <<Record("/x", "Second", ""), Record("/x#y", "Y again", ""),
             Record("/x#z", "Z", "zed")>>

\* C8: the index each on_post_build writes holds only records of the pages
\* added since the latest on_pre_build, whatever earlier builds on the same
\* plugin instance added.
C8_NoStateAcrossBuilds ==
    PostBuilt =>
        \A i \in 1..Len(site_search.index.docs) :
            site_search.index.docs[i] \in Range(Emitted(added, 1))

C8_Witness ==
    /\ pc = "built"
    /\ builds = 2
    /\ Len(added) = 1
    /\ added[1].path = "/intro/"
    /\ config.indexing = PyNone
    /\ site_search.index.docs =
           <<Record("/intro/", "Intro", "Welcome. Setup Install steps.")>>

\* a lang value as LangOption validation returns it: a list of 'en' and of
\* codes that resolve to themselves
ValidatedList(v) == v.type = "list" /\ run_validation(v) = Returned(v.l)

LanguageFileOf(code) == "lunr." \o code \o ".js"
CJK == {"ja", "jp", "zh", "ko"}

\* C9 as stated, for the non-empty lists and the non-negative
\* min_search_length the configuration is meant to hold: the files copied are the language file of every code but 'en',
\* lunr.multi.js exactly when more than one language is configured, and
\* tinyseg.js when a CJK language is in the list; none when the theme is
\* search_index_only.
C9_FilesAsListed ==
    (PostBuilt /\ ValidatedList(config.lang) /\ Len(config.lang.l) >= 1
               /\ ~MinSearchLengthNotNatural(options)) =>
        LET codes == config.lang.l
        IN  site_search.files =
                IF theme THEN {}
                ELSE {LanguageFileOf(c) : c \in Range(codes) \ {"en"}}
                         \cup (IF Len(codes) > 1 THEN {"lunr.multi.js"} ELSE {})
                         \cup (IF Range(codes) \cap CJK # {} THEN {"tinyseg.js"} ELSE {})

\* C9 amended: when the theme is not search_index_only the files copied for
\* a validated list are exactly lunr.stemmer.support.js when more than one
\* language is configured or 'en' is not in the list, lunr.multi.js when
\* more than one language is configured, tinyseg.js when 'ja' or 'jp' is in
\* the list, and the language file of every code but 'en'; the copy raises
\* nothing.  When the theme is search_index_only no file is copied.
C9_SupportFilesCopied ==
    (PostBuilt /\ ValidatedList(config.lang)) =>
        LET codes == config.lang.l
        IN  /\ site_search.raised = ""
            /\ site_search.files =
                   IF theme THEN {}
                   ELSE (IF Len(codes) > 1 \/ "en" \notin Range(codes)
                         THEN {"lunr.stemmer.support.js"} ELSE {})
                            \cup (IF Len(codes) > 1 THEN {"lunr.multi.js"} ELSE {})
                            \cup (IF {"ja", "jp"} \cap Range(codes) # {}
                                  THEN {"tinyseg.js"} ELSE {})
                            \cup {LanguageFileOf(c) : c \in Range(codes) \ {"en"}}

C9_Witness ==
    /\ pc = "built"
    /\ ~theme
    /\ config.lang = PyList(<<"de", "jp">>)
    /\ site_search.files =
           {"lunr.stemmer.support.js", "lunr.multi.js", "tinyseg.js",
            "lunr.de.js", "lunr.jp.js"}

====
